---- MODULE Spec2Model ----
(***************************************************************************)
(* Model of src/run.py: the optical calculation core `calculate` and the   *)
(* shell `main` that calls it once.                                        *)
(*                                                                         *)
(* Python floats are modelled as extended decimal rationals                *)
(*     n/d * 10^e,  +inf,  -inf,  nan                                      *)
(* with IEEE-754 rules for the non-finite values and Python's rule that a  *)
(* float division by zero raises ZeroDivisionError (kind "raise", which    *)
(* every later operation propagates).  Finite arithmetic is exact while    *)
(* numerators and denominators stay below 10^9; a result beyond that is    *)
(* rounded toward zero to its leading decimal digits, as binary64 rounds   *)
(* what it cannot represent.  The overflow and underflow of binary64 and   *)
(* the sign of zero are not modelled.  None (an absent value) is the kind  *)
(* "none".                                                                 *)
(***************************************************************************)
EXTENDS Integers, Sequences, FiniteSets, TLC

----------------------------------------------------------------------------
(* Extended decimal rationals                                              *)

Abs(i) == IF i < 0 THEN -i ELSE i

RECURSIVE Gcd(_, _)
Gcd(a, b) == IF b = 0 THEN a ELSE Gcd(b, a % b)

RECURSIVE Pow10(_)
Pow10(j) == IF j = 0 THEN 1 ELSE 10 * Pow10(j - 1)

\* number of decimal digits of a >= 0
RECURSIVE Digits(_)
Digits(a) == IF a < 10 THEN 1 ELSE 1 + Digits(a \div 10)

\* a > 0 without its trailing zeros, and how many were removed
RECURSIVE StripTens(_, _)
StripTens(a, t) == IF a % 10 = 0 THEN StripTens(a \div 10, t + 1) ELSE <<a, t>>

None  == [k |-> "none",  n |-> 0, d |-> 1, e |-> 0]
NaN   == [k |-> "nan",   n |-> 0, d |-> 1, e |-> 0]
PInf  == [k |-> "inf",   n |-> 1, d |-> 1, e |-> 0]
NInf  == [k |-> "inf",   n |-> -1, d |-> 1, e |-> 0]
Raise == [k |-> "raise", n |-> 0, d |-> 1, e |-> 0]
Zero  == [k |-> "fin",   n |-> 0, d |-> 1, e |-> 0]

\* the float with sign neg, numerator a[1] and denominator b[1], where a and
\* b are StripTens results
FinParts(neg, a, b, e) ==
    [k |-> "fin", n |-> IF neg THEN -a[1] ELSE a[1], d |-> b[1],
     e |-> e + a[2] - b[2]]

\* the float n/d * 10^e (d # 0): n/d in lowest terms by g = gcd(|n|, |d|),
\* powers of ten in e
FinReduced(n, d, e, g) ==
    FinParts((n < 0) # (d < 0), StripTens(Abs(n) \div g, 0),
             StripTens(Abs(d) \div g, 0), e)

Fin(n, d, e) ==
    IF n = 0 THEN Zero ELSE FinReduced(n, d, e, Gcd(Abs(n), Abs(d)))

I(n)    == Fin(n, 1, 0)
Q(n, d) == Fin(n, d, 0)

IsFin(x)  == x.k = "fin"
IsNaN(x)  == x.k = "nan"
IsInf(x)  == x.k = "inf"
IsNum(x)  == x.k \in {"fin", "inf"}
IsZero(x) == x.k = "fin" /\ x.n = 0
Sign(x)   == IF x.n > 0 THEN 1 ELSE IF x.n < 0 THEN -1 ELSE 0

\* floor(log10(a/b)) for a > 0, b > 0, where j = Digits(a) - Digits(b) and
\* p = 10^|j|
Log10FloorFrom(a, b, j, p) ==
    IF j >= 0
    THEN (IF a \div p >= b THEN j ELSE j - 1)
    ELSE (IF a >= (b \div p) + (IF b % p = 0 THEN 0 ELSE 1) THEN j ELSE j - 1)

Log10Floor(a, b) ==
    Log10FloorFrom(a, b, Digits(a) - Digits(b), Pow10(Abs(Digits(a) - Digits(b))))

\* the decimal order of magnitude of a finite x # 0: 10^Mag <= |x| < 10^(Mag+1)
Mag(x) == Log10Floor(Abs(x.n), x.d) + x.e

\* floor(a * 10^j / b) by long division, for b below 10^8
RECURSIVE LongDiv(_, _, _, _)
LongDiv(q, r, b, j) ==
    IF j = 0 THEN q
    ELSE LongDiv(q * 10 + (r * 10) \div b, (r * 10) % b, b, j - 1)

\* floor(a * 10^j / b), for b below 10^8 and any integer j
ShiftDiv(a, b, j) ==
    IF j >= 0 THEN LongDiv(a \div b, a % b, b, j)
    ELSE (a \div Pow10(-j)) \div b

\* the first P significant decimal digits of |x|, for a finite x # 0 of
\* magnitude mag: floor(|x| / 10^(mag - P + 1))
DecMantMag(x, P, mag) ==
    IF Digits(x.d) > 8
    THEN ShiftDiv(Abs(x.n) \div 10, x.d \div 10, x.e + P - 1 - mag)
    ELSE ShiftDiv(Abs(x.n), x.d, x.e + P - 1 - mag)

DecMant(x, P) == DecMantMag(x, P, Mag(x))

\* a * b stays below 10^9
Fits(a, b) == Digits(Abs(a)) + Digits(Abs(b)) <= 9

\* x < y for finite x > 0, y > 0 of equal magnitude mag, where gx and gy
\* align the exponents
PosLtAligned(x, y, mag, gx, gy) ==
    IF Digits(x.n) + gx + Digits(y.d) <= 9
       /\ Digits(y.n) + gy + Digits(x.d) <= 9
    THEN x.n * Pow10(gx) * y.d < y.n * Pow10(gy) * x.d
    ELSE DecMantMag(x, 8, mag) < DecMantMag(y, 8, mag)

\* x < y for finite x > 0, y > 0 of magnitudes mx, my
PosLtMag(x, y, mx, my) ==
    IF mx # my THEN mx < my
    ELSE PosLtAligned(x, y, mx,
                      IF x.e >= y.e THEN x.e - y.e ELSE 0,
                      IF y.e >= x.e THEN y.e - x.e ELSE 0)

\* x < y for finite x > 0, y > 0
PosLt(x, y) == PosLtMag(x, y, Mag(x), Mag(y))

Neg(x) == IF x.k \in {"fin", "inf"} THEN [x EXCEPT !.n = -x.n] ELSE x

\* float comparison x < y: false when either side is nan
Lt(x, y) ==
    IF ~(IsNum(x) /\ IsNum(y)) THEN FALSE
    ELSE IF IsInf(x) THEN x.n < 0 /\ ~(IsInf(y) /\ y.n < 0)
    ELSE IF IsInf(y) THEN y.n > 0
    ELSE IF Sign(x) # Sign(y) THEN Sign(x) < Sign(y)
    ELSE IF Sign(x) = 0 THEN FALSE
    ELSE PosLt(IF Sign(x) > 0 THEN x ELSE Neg(y),
               IF Sign(x) > 0 THEN y ELSE Neg(x))

\* float comparison x == y (a value has more than one representation)
Eq(x, y) == IsNum(x) /\ IsNum(y) /\ ~Lt(x, y) /\ ~Lt(y, x)
Le(x, y) == IsNum(x) /\ IsNum(y) /\ ~Lt(y, x)
Gt(x, y) == Lt(y, x)
Ge(x, y) == Le(y, x)

\* the comparisons x > 0, x <= 0 and 0 <= x, read off the numerator's sign
Pos(x)    == IsNum(x) /\ x.n > 0
NonPos(x) == IsNum(x) /\ x.n <= 0
NonNeg(x) == IsNum(x) /\ x.n >= 0

Raised2(x, y) == x.k = "raise" \/ y.k = "raise"

\* the first 8 significant digits of v (of magnitude mag), signed, in units
\* of 10^(top - 7)
Part(v, mag, top) ==
    IF top - mag > 8 THEN 0
    ELSE Sign(v) * (DecMantMag(v, 8, mag) \div Pow10(top - mag))

\* x + y rounded toward zero to 8 significant digits below 10^(top + 1)
AddAligned(x, y, mx, my, top) ==
    Fin(Part(x, mx, top) + Part(y, my, top), 1, top - 7)

\* x + y for x, y of magnitudes mx, my
AddMag(x, y, mx, my) == AddAligned(x, y, mx, my, IF mx > my THEN mx ELSE my)

\* x + y for finite x # 0, y # 0, rounded toward zero to 8 significant digits
AddRounded(x, y) == AddMag(x, y, Mag(x), Mag(y))

\* x + y over the common exponent m and g = gcd(x.d, y.d): exact while the
\* integers stay below 10^9
AddCommon(x, y, m, g) ==
    IF Digits(Abs(x.n)) + (x.e - m) + Digits(y.d \div g) <= 9
       /\ Digits(Abs(y.n)) + (y.e - m) + Digits(x.d \div g) <= 9
       /\ Fits(x.d \div g, y.d)
    THEN Fin(x.n * Pow10(x.e - m) * (y.d \div g)
               + y.n * Pow10(y.e - m) * (x.d \div g),
             (x.d \div g) * y.d, m)
    ELSE AddRounded(x, y)

\* x + y for finite x, y
AddFin(x, y) ==
    IF IsZero(x) THEN y
    ELSE IF IsZero(y) THEN x
    ELSE AddCommon(x, y, IF x.e < y.e THEN x.e ELSE y.e, Gcd(x.d, y.d))

Add(x, y) ==
    IF Raised2(x, y) THEN Raise
    ELSE IF IsNaN(x) \/ IsNaN(y) THEN NaN
    ELSE IF IsInf(x) THEN (IF IsInf(y) /\ y.n # x.n THEN NaN ELSE x)
    ELSE IF IsInf(y) THEN y
    ELSE AddFin(x, y)

Sub(x, y) == Add(x, Neg(y))

\* x * y from the factors' first 4 significant digits
MulRounded(x, y, mx, my) ==
    Fin(Sign(x) * Sign(y) * DecMantMag(x, 4, mx) * DecMantMag(y, 4, my), 1,
        mx + my - 6)

\* x * y after cancelling g1 = gcd(|x.n|, y.d) and g2 = gcd(|y.n|, x.d): exact
\* while the integers stay below 10^9, otherwise rounded
MulCancelled(x, y, g1, g2) ==
    IF Fits(x.n \div g1, y.n \div g2) /\ Fits(x.d \div g2, y.d \div g1)
    THEN Fin((x.n \div g1) * (y.n \div g2),
             (x.d \div g2) * (y.d \div g1), x.e + y.e)
    ELSE MulRounded(x, y, Mag(x), Mag(y))

\* x * y for finite x # 0, y # 0
MulFin(x, y) == MulCancelled(x, y, Gcd(Abs(x.n), y.d), Gcd(Abs(y.n), x.d))

Mul(x, y) ==
    IF Raised2(x, y) THEN Raise
    ELSE IF IsNaN(x) \/ IsNaN(y) THEN NaN
    ELSE IF IsInf(x) \/ IsInf(y)
         THEN (IF Sign(x) * Sign(y) = 0 THEN NaN
               ELSE IF Sign(x) * Sign(y) > 0 THEN PInf ELSE NInf)
    ELSE IF x.n = 0 \/ y.n = 0 THEN Zero
    ELSE MulFin(x, y)

\* Python's float division: a zero divisor raises ZeroDivisionError
Div(x, y) ==
    IF Raised2(x, y) THEN Raise
    ELSE IF IsZero(y) THEN Raise
    ELSE IF IsNaN(x) \/ IsNaN(y) THEN NaN
    ELSE IF IsInf(y) THEN (IF IsInf(x) THEN NaN ELSE Zero)
    ELSE IF IsInf(x) THEN (IF Sign(x) * Sign(y) > 0 THEN PInf ELSE NInf)
    ELSE Mul(x, Fin(IF y.n < 0 THEN -y.d ELSE y.d, Abs(y.n), -y.e))

\* Python's min(a, b) and max(a, b): the first argument unless the second
\* compares strictly below (above) it
Min(a, b) == IF Lt(b, a) THEN b ELSE a
Max(a, b) == IF Gt(b, a) THEN b ELSE a

FAbs(x) == IF IsNum(x) /\ x.n < 0 THEN Neg(x) ELSE x

\* truth value of a float or None: None and 0.0 are false, nan and inf true
Truthy(x) == ~(x.k = "none" \/ IsZero(x))
Or(x, y)  == IF Truthy(x) THEN x ELSE y

\* precision kept by an inexact square root: radicands are scaled to at
\* least this many units before the integer root is taken
SqrtDigits == 10000

\* floor(sqrt(n)) by bisection, lo*lo <= n < hi*hi
RECURSIVE ISqrt(_, _, _)
ISqrt(n, lo, hi) ==
    IF hi - lo <= 1 THEN lo
    ELSE LET mid == (lo + hi) \div 2
         IN  IF mid * mid <= n THEN ISqrt(n, mid, hi) ELSE ISqrt(n, lo, mid)

\* the radicand v scaled by 100^j into [SqrtDigits, 100 * SqrtDigits)
RECURSIVE SqrtScale(_, _)
SqrtScale(v, j) == IF v >= SqrtDigits THEN <<v, j>> ELSE SqrtScale(v * 100, j + 1)

\* math.sqrt of a finite x >= 0: sqrt(n/d) = sqrt(n*d)/d, exact when x is
\* the square of a decimal rational, otherwise rounded down to the digits
\* that SqrtDigits keeps
Sqrt(x) ==
    IF IsZero(x) THEN Zero
    ELSE LET n2 == IF x.e % 2 = 0 THEN x.n ELSE x.n * 10
             e2 == IF x.e % 2 = 0 THEN x.e ELSE x.e - 1
             r  == ISqrt(n2 * x.d, 0, n2 * x.d + 1)
             sc == SqrtScale(n2 * x.d, 0)
         IN  IF r * r = n2 * x.d THEN Fin(r, x.d, e2 \div 2)
             ELSE Fin(ISqrt(sc[1], 0, 46340), x.d, (e2 \div 2) - sc[2])

\* math.hypot: inf if either argument is infinite, else nan if either is nan
Hypot(x, y) ==
    IF Raised2(x, y) THEN Raise
    ELSE IF IsInf(x) \/ IsInf(y) THEN PInf
    ELSE IF IsNaN(x) \/ IsNaN(y) THEN NaN
    ELSE Sqrt(Add(Mul(x, x), Mul(y, y)))

\* math.floor and math.ceil of a finite x, as an integer-valued float
Floor(x) ==
    LET num == IF x.e >= 0 THEN x.n * Pow10(x.e) ELSE x.n
        den == IF x.e >= 0 THEN x.d ELSE x.d * Pow10(-x.e)
        q   == Abs(num) \div den
    IN  IF num >= 0 THEN I(q)
        ELSE IF Abs(num) % den = 0 THEN I(-q) ELSE I(-q - 1)

Ceil(x) == Neg(Floor(Neg(x)))

----------------------------------------------------------------------------
(* Input values and strings                                                *)

\* a JSON value that float() rejects (a non-numeric string, a list)
Bad == [k |-> "bad", n |-> 0, d |-> 1, e |-> 0]

\* _as_float(values, key, default=...): the value of the key as a float;
\* the default when the key is absent or null, or when float() raises
\* TypeError/ValueError on it
_as_float(v, default) ==
    IF v.k = "none" THEN default
    ELSE IF v.k = "bad" THEN default
    ELSE v

\* strings are sequences of one-character strings
UpperChar(c) ==
    CASE c = "w" -> "W"
      [] c = "h" -> "H"
      [] c = "x" -> "X"
      [] OTHER   -> c

Upper(s) == [i \in 1..Len(s) |-> UpperChar(s[i])]

RECURSIVE LStrip(_)
LStrip(s) == IF s # <<>> /\ Head(s) = " " THEN LStrip(Tail(s)) ELSE s

RECURSIVE RStrip(_)
RStrip(s) ==
    IF s # <<>> /\ s[Len(s)] = " " THEN RStrip(SubSeq(s, 1, Len(s) - 1)) ELSE s

Strip(s) == RStrip(LStrip(s))

\* str(params.get("object_motion_axis", "W")).strip().upper()
MotionAxis(a) ==
    IF a.k = "none" THEN <<"W">> ELSE Upper(Strip(a.s))

----------------------------------------------------------------------------
(* The helper functions of run.py                                          *)

\* lines 22-30: _sensor_pixels on the pitches in mm
SensorPixelsMm(sensor_w_mm, sensor_h_mm, px_w_mm0, px_h_mm0) ==
    LET px_w_mm == IF NonPos(px_w_mm0) /\ NonNeg(px_h_mm0)
                   THEN px_h_mm0 ELSE px_w_mm0
        px_h_mm == IF NonPos(px_h_mm0) /\ NonNeg(px_w_mm)
                   THEN px_w_mm ELSE px_h_mm0
    IN  IF NonPos(px_w_mm0) /\ NonPos(px_h_mm0)
        THEN [pixels_horz |-> Zero, pixels_vert |-> Zero]
        ELSE [pixels_horz |-> IF Pos(px_w_mm)
                              THEN Div(sensor_w_mm, px_w_mm) ELSE Zero,
              pixels_vert |-> IF Pos(px_h_mm)
                              THEN Div(sensor_h_mm, px_h_mm) ELSE Zero]

_sensor_pixels(sensor_w_mm, sensor_h_mm, px_w_um, px_h_um) ==
    SensorPixelsMm(sensor_w_mm, sensor_h_mm,
                   Div(Or(px_w_um, Zero), I(1000)),
                   Div(Or(px_h_um, Zero), I(1000)))

\* lines 40-42: the pair (di, m) for the image distance di
LensConjugate(di, do) == [di |-> di, m |-> FAbs(Div(di, do))]

\* _lens_geometry with the guard testing the distance against 0 instead of
\* the focal length
_lens_geometry_zero_guard(f_mm, working_distance_mm) ==
    IF NonPos(working_distance_mm)
    THEN [di |-> PInf, m |-> PInf]
    ELSE LensConjugate(Div(Mul(f_mm, working_distance_mm),
                           Sub(working_distance_mm, f_mm)),
                       working_distance_mm)

_lens_geometry(f_mm, working_distance_mm) ==
    IF Le(working_distance_mm, f_mm)
    THEN [di |-> PInf, m |-> PInf]
    ELSE LensConjugate(Div(Mul(f_mm, working_distance_mm),
                           Sub(working_distance_mm, f_mm)),
                       working_distance_mm)

\* lines 55-58: the depth-of-field record; beyond is s >= H
DofRecord(c, H, beyond, Dn, Df) ==
    [circle_of_confusion_mm_used |-> c,
     near_mm       |-> Dn,
     far_mm        |-> Df,
     DOF_mm        |-> IF beyond THEN PInf ELSE Sub(Df, Dn),
     hyperfocal_mm |-> H]

\* lines 51-57: near and far limits for the hyperfocal distance H
DofLimits(f, c, s, H, beyond) ==
    DofRecord(c, H, beyond,
              Div(Mul(H, s), Add(H, Sub(s, f))),
              IF beyond THEN PInf ELSE Div(Mul(H, s), Sub(H, Sub(s, f))))

\* lines 50-58: _dof_hyperfocal for the clamped circle of confusion c
DofHyperfocal(f, c, s, H) == DofLimits(f, c, s, H, Ge(s, H))

_dof_hyperfocal(f, N, coc_mm, s) ==
    DofHyperfocal(f, Max(coc_mm, Fin(1, 1, -12)), s,
                  Add(Div(Mul(f, f), Mul(N, Max(coc_mm, Fin(1, 1, -12)))), f))

Wavelength == Q(55, 100)

\* lines 66-75: the ratio and the record of _diffraction_sampling_metrics
DiffractionRecord(pixel_size_mm_min, wavelength_um, airy_um, nyquist, cutoff) ==
    [wavelength_um |-> wavelength_um,
     airy_disk_diameter_um |-> airy_um,
     airy_disk_diameter_pixels |->
         IF Pos(pixel_size_mm_min)
         THEN Div(airy_um, Mul(pixel_size_mm_min, I(1000))) ELSE PInf,
     diffraction_cutoff_lp_per_mm |-> cutoff,
     nyquist_over_diffraction_cutoff |->
         IF IsFin(cutoff) /\ Pos(cutoff) THEN Div(nyquist, cutoff) ELSE PInf,
     sensor_nyquist_lp_per_mm |-> nyquist]

\* lines 63-75: _diffraction_sampling_metrics for the wavelength in mm
DiffractionMm(pixel_size_mm_min, f_number_eff, wavelength_um, lambda_mm) ==
    DiffractionRecord(
        pixel_size_mm_min, wavelength_um,
        Mul(Mul(Q(244, 100), wavelength_um), f_number_eff),
        IF Pos(pixel_size_mm_min)
        THEN Div(I(1), Mul(I(2), pixel_size_mm_min)) ELSE PInf,
        IF Pos(lambda_mm) /\ Pos(f_number_eff)
        THEN Div(I(1), Mul(lambda_mm, f_number_eff)) ELSE PInf)

_diffraction_sampling_metrics(pixel_size_mm_min, f_number_eff, wavelength_um) ==
    DiffractionMm(pixel_size_mm_min, f_number_eff, wavelength_um,
                  Div(wavelength_um, I(1000)))

\* floor(log2(a/b)) for a >= b > 0
RECURSIVE Log2Floor(_, _)
Log2Floor(a, b) == IF a \div 2 >= b THEN 1 + Log2Floor(a \div 2, b) ELSE 0

\* math.log2 of a finite x >= 1, rounded down to an integer
Log2(x) ==
    I(Log2Floor(IF x.e >= 0 THEN x.n * Pow10(x.e) ELSE x.n,
                IF x.e >= 0 THEN x.d ELSE x.d * Pow10(-x.e)))

\* the clamp without its lower bound
ClampRatio_upper_only(corner_ratio) == Min(corner_ratio, I(1))

\* line 85: corner_ratio = max(min(corner_ratio, 1.0), 0.0)
ClampRatio(corner_ratio) == Max(Min(corner_ratio, I(1)), Zero)

\* lines 90-91 for cos2 = cos_theta^2: cos_theta ** 4
Cos4(cos2) == Mul(cos2, cos2)

\* lines 89-91: cos_theta = 1/sqrt(1 + tan^2), so cos_theta^2 = 1/(1 + tan^2)
\* in exact arithmetic
CosFourth(tan_theta) ==
    Cos4(Div(I(1), Add(I(1), Mul(tan_theta, tan_theta))))

\* lines 96-103: the record for the corner percentage
IlluminationPercent(corner_ratio, corner_percent) ==
    [relative_illumination_center_percent |-> I(100),
     relative_illumination_corner_percent |-> corner_percent,
     corner_to_center_ratio |-> corner_ratio,
     vignetting_loss_percent |-> Max(Zero, Sub(I(100), corner_percent)),
     exposure_compensation_stops_at_corners |->
         IF Pos(corner_ratio)
         THEN Log2(Div(I(1), Max(corner_ratio, Fin(1, 1, -9))))
         ELSE PInf]

\* lines 94-103: the metrics of a corner ratio
IlluminationRecord(corner_ratio) ==
    IlluminationPercent(corner_ratio, Mul(I(100), corner_ratio))

_illumination_metrics(sensor_diag_mm, image_distance_mm, lens_relative_illumination) ==
    IlluminationRecord(
        IF lens_relative_illumination.k # "none"
        THEN ClampRatio(IF Gt(lens_relative_illumination, Q(15, 10))
                        THEN Div(lens_relative_illumination, I(100))
                        ELSE lens_relative_illumination)
        ELSE IF IsFin(image_distance_mm) /\ Pos(image_distance_mm)
             THEN CosFourth(Div(Mul(Q(5, 10), sensor_diag_mm),
                                image_distance_mm))
             ELSE I(1))

----------------------------------------------------------------------------
(* The stages of calculate, in source order                                *)

\* lines 109-124: the sensor locals for the pixel counts px and the minimum
\* pitch pmin
SensorRecord(sensor_w_mm, sensor_h_mm, diag0, px_w_um, px_h_um, px, pmin) ==
    [sensor_w_mm    |-> sensor_w_mm,
     sensor_h_mm    |-> sensor_h_mm,
     sensor_diag_mm |-> IF ~Truthy(diag0) /\ Pos(sensor_w_mm) /\ Pos(sensor_h_mm)
                        THEN Hypot(sensor_w_mm, sensor_h_mm) ELSE diag0,
     px_w_um        |-> px_w_um,
     px_h_um        |-> px_h_um,
     pixels_horz    |-> px.pixels_horz,
     pixels_vert    |-> px.pixels_vert,
     total_pixels   |-> IF Pos(px.pixels_horz) /\ Pos(px.pixels_vert)
                        THEN Mul(px.pixels_horz, px.pixels_vert) ELSE Zero,
     aspect_ratio   |-> IF Pos(sensor_h_mm)
                        THEN Div(sensor_w_mm, sensor_h_mm) ELSE PInf,
     pixel_size_mm_min |-> pmin,
     sensor_nyquist_lp_per_mm |->
         IF IsFin(pmin) /\ Pos(pmin)
         THEN Div(I(1), Mul(I(2), pmin)) ELSE PInf]

\* lines 107-124: sensor size, pixel counts, minimum pitch, sensor Nyquist
SensorStage(p) ==
    LET sensor_w_mm == Or(_as_float(p.sensor_width_mm, Zero), Zero)
        sensor_h_mm == Or(_as_float(p.sensor_height_mm, Zero), Zero)
        px_w_um     == _as_float(p.sensor_pixel_size_width_um, None)
        px_h_um     == _as_float(p.sensor_pixel_size_height_um, None)
    IN  SensorRecord(sensor_w_mm, sensor_h_mm,
                     _as_float(p.sensor_diagonal_mm, None), px_w_um, px_h_um,
                     _sensor_pixels(sensor_w_mm, sensor_h_mm, px_w_um, px_h_um),
                     Min(Div(Or(px_w_um, PInf), I(1000)),
                         Div(Or(px_h_um, PInf), I(1000))))

\* lines 126-135: the lens locals for the conjugate pair g = (di, m)
LensRecord(p, f_mm, f_stop, wd, g) ==
    [f_mm   |-> f_mm,
     f_stop |-> f_stop,
     lens_diag_mm |-> Or(_as_float(p.lens_diagonal_mm, None), Zero),
     lens_distortion_perc |-> _as_float(p.lens_distortion_perc, None),
     lens_resolution_lp_per_mm |-> _as_float(p.lens_resolution, None),
     working_distance_mm |-> wd,
     di_mm |-> g.di,
     m     |-> g.m,
     aperture_diameter_mm |-> IF Pos(f_stop) THEN Div(f_mm, f_stop) ELSE PInf,
     effective_f_number |->
         IF Pos(f_stop)
         THEN Mul(f_stop, Add(I(1), IF IsFin(g.m) THEN g.m ELSE Zero))
         ELSE PInf]

\* lines 126-135: lens inputs, thin-lens conjugate, aperture, effective f-number
LensStage(p) ==
    LET f_mm == Or(_as_float(p.lens_focal_length_mm, Zero), Zero)
        wd   == Or(_as_float(p.working_distance_mm, Zero), Zero)
    IN  LensRecord(p, f_mm, Or(_as_float(p.lens_fstop, Zero), Zero), wd,
                   _lens_geometry(f_mm, wd))

\* lines 143-158: the field-of-view record for the pixel densities
FovRecord(fov_w, fov_h, ppmm_x, ppmm_y, target_fov_w, target_fov_h) ==
    [fov_width_mm    |-> fov_w,
     fov_height_mm   |-> fov_h,
     fov_diagonal_mm |-> Hypot(fov_w, fov_h),
     fov_area_mm2    |-> IF IsFin(fov_w) /\ IsFin(fov_h)
                         THEN Mul(fov_w, fov_h) ELSE PInf,
     pixels_per_mm_x |-> ppmm_x,
     pixels_per_mm_y |-> ppmm_y,
     mm_per_pixel_x  |-> IF Pos(ppmm_x) THEN Div(I(1), ppmm_x) ELSE PInf,
     mm_per_pixel_y  |-> IF Pos(ppmm_y) THEN Div(I(1), ppmm_y) ELSE PInf,
     fov_width_actual_vs_target_percent |->
         IF Truthy(target_fov_w) /\ Pos(target_fov_w)
            /\ IsFin(fov_w) /\ Pos(fov_w)
         THEN Mul(Div(fov_w, target_fov_w), I(100)) ELSE NaN,
     fov_height_actual_vs_target_percent |->
         IF Truthy(target_fov_h) /\ Pos(target_fov_h)
            /\ IsFin(fov_h) /\ Pos(fov_h)
         THEN Mul(Div(fov_h, target_fov_h), I(100)) ELSE NaN]

\* lines 143-158: pixel densities and the percentages for the field of view
FovSampling(p, S, fov_w, fov_h) ==
    FovRecord(fov_w, fov_h,
              IF Pos(fov_w) /\ Pos(S.pixels_horz)
              THEN Div(S.pixels_horz, fov_w) ELSE Zero,
              IF Pos(fov_h) /\ Pos(S.pixels_vert)
              THEN Div(S.pixels_vert, fov_h) ELSE Zero,
              _as_float(p.target_fov_width, None),
              _as_float(p.target_fov_height, None))

\* lines 137-158: field of view, pixel density, actual-vs-target percentages
FovStage(p, S, L) ==
    FovSampling(p, S,
                IF IsFin(L.m) /\ Pos(L.m) THEN Div(S.sensor_w_mm, L.m) ELSE PInf,
                IF IsFin(L.m) /\ Pos(L.m) THEN Div(S.sensor_h_mm, L.m) ELSE PInf)

\* the recommendation taking the larger of the two bounds
RecommendedExposure_max(max_exposure_us_motion_1px, max_exposure_us_frame) ==
    Max(max_exposure_us_motion_1px, max_exposure_us_frame)

\* line 179: min(max_exposure_us_motion_1px, max_exposure_us_frame)
RecommendedExposure(max_exposure_us_motion_1px, max_exposure_us_frame) ==
    Min(max_exposure_us_motion_1px, max_exposure_us_frame)

\* lines 167-179: the motion record for the two blur bounds
MotionRecord(loc, object_speed_px_s, max_exposure_us_motion, max_exposure_us_motion_1px) ==
    [sensor_fps        |-> loc.sensor_fps,
     motion_axis       |-> loc.motion_axis,
     px_per_mm_axis    |-> loc.px_per_mm_axis,
     allowed_blur_px   |-> loc.allowed_blur_px,
     object_speed_mm_s |-> loc.object_speed_mm_s,
     object_speed_px_s |-> object_speed_px_s,
     frame_period_us   |-> loc.frame_period_us,
     max_exposure_us_motion_blur_for_allowed_blur_px |-> max_exposure_us_motion,
     max_exposure_us_frame |-> loc.frame_period_us,
     max_exposure_us_motion_1px |-> max_exposure_us_motion_1px,
     recommended_exposure_us |->
         RecommendedExposure(max_exposure_us_motion_1px, loc.frame_period_us)]

\* lines 167-179: the blur bounds for the object speed in pixels per second
MotionBounds(loc, object_speed_px_s) ==
    MotionRecord(loc, object_speed_px_s,
                 IF Pos(object_speed_px_s) /\ Pos(loc.allowed_blur_px)
                 THEN Mul(Fin(1, 1, 6),
                          Div(loc.allowed_blur_px, object_speed_px_s))
                 ELSE IF NonPos(loc.object_speed_mm_s) THEN PInf
                 ELSE Zero,
                 IF Pos(object_speed_px_s)
                 THEN Mul(Fin(1, 1, 6), Div(I(1), object_speed_px_s))
                 ELSE PInf)

\* lines 160-165: frame rate and period, allowed blur, object speed, axis
MotionLocals(p, F) ==
    LET sensor_fps  == Or(_as_float(p.sensor_framerate, None), Zero)
        motion_axis == MotionAxis(p.object_motion_axis)
    IN  [sensor_fps        |-> sensor_fps,
         frame_period_us   |-> IF Pos(sensor_fps)
                               THEN Div(Fin(1, 1, 6), sensor_fps) ELSE PInf,
         allowed_blur_px   |->
             Or(_as_float(p.object_allowed_blur_pixels, None), Zero),
         object_speed_mm_s |->
             Or(_as_float(p.object_initial_speed_mm_s, None), Zero),
         motion_axis       |-> motion_axis,
         px_per_mm_axis    |-> IF motion_axis = <<"H">>
                               THEN F.pixels_per_mm_y ELSE F.pixels_per_mm_x]

\* lines 166-179: the object speed in pixels per second and the bounds
MotionSpeed(loc) ==
    MotionBounds(loc, Mul(loc.object_speed_mm_s, loc.px_per_mm_axis))

\* lines 160-179: frame period, motion-blur bounds, recommended exposure
MotionStage(p, F) == MotionSpeed(MotionLocals(p, F))

\* line 182: the depth-of-field call for the circle of confusion
DofCall(L, coc_mm) ==
    _dof_hyperfocal(L.f_mm, L.f_stop,
                    IF Pos(coc_mm) THEN coc_mm ELSE Fin(1, 1, -3),
                    L.working_distance_mm)

\* lines 181-182: circle of confusion and the depth-of-field call
DofStage(S, L) ==
    DofCall(L, IF IsFin(S.pixel_size_mm_min) THEN S.pixel_size_mm_min
               ELSE Div(Max(Or(S.px_w_um, Zero), Or(S.px_h_um, Zero)), I(1000)))

\* line 184: the diffraction call, on the pitch and f-number it substitutes
DiffStage(S, L) ==
    _diffraction_sampling_metrics(
        IF Pos(S.pixel_size_mm_min)
        THEN S.pixel_size_mm_min ELSE Fin(1, 1, -6),
        Max(L.effective_f_number, Fin(1, 1, -9)),
        Wavelength)

\* lines 186-194: the regime for the lens MTF50
RegimeRecord(diff, mtf50) ==
    [lens_mtf50_lp_per_mm |-> mtf50,
     mtf50_vs_nyquist_ratio |->
         IF Pos(diff.sensor_nyquist_lp_per_mm)
         THEN Div(mtf50, diff.sensor_nyquist_lp_per_mm) ELSE PInf,
     sampling_regime |->
         IF Gt(diff.nyquist_over_diffraction_cutoff, Q(11, 10))
         THEN "optics-limited (diffraction)"
         ELSE IF Lt(mtf50, Mul(Q(9, 10), diff.sensor_nyquist_lp_per_mm))
              THEN "optics-limited (aberrations)"
         ELSE IF Lt(diff.nyquist_over_diffraction_cutoff, Q(9, 10))
              THEN "sensor-limited"
         ELSE "balanced"]

\* lines 185-194: lens MTF50 and the sampling regime
RegimeStage(L, diff) ==
    RegimeRecord(diff,
                 IF L.lens_resolution_lp_per_mm.k # "none"
                 THEN L.lens_resolution_lp_per_mm
                 ELSE Mul(Q(5, 10), diff.diffraction_cutoff_lp_per_mm))

\* lines 196-214: the coverage record for the effective distortion
CoverageRecord(lens_diag, sdiag, fov_diag_mm, cov_ratio, eff_dist) ==
    [coverage_ok |->
         IF Truthy(lens_diag) /\ Truthy(sdiag)
         THEN Ge(lens_diag, Or(sdiag, Zero)) ELSE FALSE,
     coverage_margin_mm |->
         IF Truthy(lens_diag) /\ Truthy(sdiag)
         THEN Mul(Q(5, 10), Sub(lens_diag, Or(sdiag, Zero))) ELSE NaN,
     coverage_ratio_actual_vs_design |-> cov_ratio,
     fov_width_scale_vs_design  |-> cov_ratio,
     fov_height_scale_vs_design |-> cov_ratio,
     fov_area_scale_vs_design |->
         IF IsFin(cov_ratio) THEN Mul(cov_ratio, cov_ratio) ELSE NaN,
     effective_distortion_percent_at_actual_edge |-> eff_dist,
     edge_position_error_mm_effective |->
         IF IsFin(eff_dist)
         THEN Mul(Div(eff_dist, I(100)), Mul(Q(5, 10), fov_diag_mm))
         ELSE NaN]

\* lines 203-214: the effective distortion for the coverage ratio
CoverageDistortion(lens_diag, sdiag, fov_diag_mm, distortion, cov_ratio) ==
    CoverageRecord(lens_diag, sdiag, fov_diag_mm, cov_ratio,
                   IF distortion.k # "none" /\ IsFin(cov_ratio)
                   THEN (IF Le(cov_ratio, I(1))
                         THEN Mul(distortion, cov_ratio)
                         ELSE distortion)
                   ELSE NaN)

\* lines 196-214: coverage, design-scale factors, effective distortion
CoverageStage(S, L, F) ==
    CoverageDistortion(L.lens_diag_mm, S.sensor_diag_mm, F.fov_diagonal_mm,
                       L.lens_distortion_perc,
                       IF Pos(L.lens_diag_mm) /\ Truthy(S.sensor_diag_mm)
                       THEN Div(Or(S.sensor_diag_mm, Zero), L.lens_diag_mm)
                       ELSE NaN)

\* lines 216-217: relative illumination
IllumStage(p, S, L) ==
    _illumination_metrics(Or(S.sensor_diag_mm, Zero), L.di_mm,
                          _as_float(p.lens_relative_illumination, None))

\* lines 219-226: the appearance record for the expected frames
AppearRecord(M, extent, duration, frames, disp_mm) ==
    [appearance_axis_used |-> M.motion_axis,
     traversal_extent_mm  |-> extent,
     duration_s      |-> duration,
     expected_frames |-> frames,
     frames_min |-> IF IsFin(frames) THEN Floor(frames) ELSE Zero,
     frames_max |-> IF IsFin(frames) THEN Ceil(frames) ELSE Zero,
     displacement_per_frame_mm |-> disp_mm,
     displacement_per_frame_px |->
         IF IsFin(disp_mm) THEN Mul(disp_mm, M.px_per_mm_axis) ELSE PInf]

\* lines 222-226: frames and displacement for the time in view
AppearFrames(M, extent, duration) ==
    AppearRecord(M, extent, duration,
                 IF Pos(M.sensor_fps) /\ IsFin(duration)
                 THEN Mul(duration, M.sensor_fps) ELSE PInf,
                 IF Pos(M.sensor_fps)
                 THEN Div(M.object_speed_mm_s, M.sensor_fps) ELSE PInf)

\* lines 220-226: the appearance for the extent traversed
AppearDuration(M, extent) ==
    AppearFrames(M, extent,
                 IF Pos(M.object_speed_mm_s) /\ IsFin(extent)
                 THEN Div(extent, M.object_speed_mm_s) ELSE PInf)

\* lines 219-226: time and frames in view, displacement per frame
AppearStage(F, M) ==
    AppearDuration(M, IF M.motion_axis = <<"H">>
                      THEN F.fov_height_mm ELSE F.fov_width_mm)

\* lines 228-230: summary flags
FlagStage(M, D, C, Il) ==
    [diffraction_dominant |-> Gt(D.nyquist_over_diffraction_cutoff, I(1)),
     exposure_limited_by_frame |->
         IF IsFin(M.max_exposure_us_frame)
            /\ IsFin(M.max_exposure_us_motion_blur_for_allowed_blur_px)
         THEN Lt(M.max_exposure_us_frame,
                 M.max_exposure_us_motion_blur_for_allowed_blur_px)
         ELSE FALSE,
     potential_vignetting |->
         ~C.coverage_ok \/ Lt(Il.corner_to_center_ratio, Q(7, 10))]

\* a ZeroDivisionError raised while computing a record of floats
Raises(rec) == \E fld \in DOMAIN rec : rec[fld].k = "raise"

\* lines 232-304: the result record that calculate returns
Results(S, L, F, M, Do, D, R, C, Il, A) ==
    [status |-> "ok",
     sensor |-> [pixels_horz  |-> S.pixels_horz,
                 pixels_vert  |-> S.pixels_vert,
                 total_pixels |-> S.total_pixels,
                 aspect_ratio |-> S.aspect_ratio,
                 sensor_nyquist_lp_per_mm |-> S.sensor_nyquist_lp_per_mm],
     lens_geometry |->
         [aperture_diameter_mm |-> L.aperture_diameter_mm,
          effective_f_number   |-> L.effective_f_number,
          working_distance_mm  |-> L.working_distance_mm,
          image_distance_mm    |-> L.di_mm,
          magnification_percent |->
              IF IsFin(L.m) THEN Mul(L.m, I(100)) ELSE PInf],
     fov_sampling |-> F,
     motion_exposure |->
         [object_speed_mm_s |-> M.object_speed_mm_s,
          object_speed_px_s |-> M.object_speed_px_s,
          frame_period_us   |-> M.frame_period_us,
          max_exposure_us_motion_blur_for_allowed_blur_px |->
              M.max_exposure_us_motion_blur_for_allowed_blur_px,
          max_exposure_us_frame   |-> M.max_exposure_us_frame,
          recommended_exposure_us |-> M.recommended_exposure_us],
     depth_of_field |-> Do,
     diffraction_mtf |->
         [wavelength_um |-> D.wavelength_um,
          airy_disk_diameter_um |-> D.airy_disk_diameter_um,
          airy_disk_diameter_pixels |-> D.airy_disk_diameter_pixels,
          diffraction_cutoff_lp_per_mm |-> D.diffraction_cutoff_lp_per_mm,
          nyquist_over_diffraction_cutoff |->
              D.nyquist_over_diffraction_cutoff,
          lens_mtf50_lp_per_mm   |-> R.lens_mtf50_lp_per_mm,
          mtf50_vs_nyquist_ratio |-> R.mtf50_vs_nyquist_ratio,
          sampling_regime        |-> R.sampling_regime],
     coverage_distortion |-> C,
     illumination |-> Il,
     appearances  |-> A,
     flags        |-> FlagStage(M, D, C, Il)]

----------------------------------------------------------------------------
(* Inputs: the parameter mappings that main may read from input.json       *)

\* number of positive multiples of its unit that each varied parameter takes
MaxMul == 2

\* absent (or null), malformed and zero
Degenerate == {None, Bad, Zero}

\* absent, malformed, zero, negative and positive values of a parameter
Vals(unit) == Degenerate \cup {Neg(unit)} \cup {Mul(unit, I(j)) : j \in 1..MaxMul}

NoAxis  == [k |-> "none", s |-> <<>>]
Axis(s) == [k |-> "str", s |-> s]
AxisVals == {NoAxis, Axis(<<"W">>), Axis(<<"H">>), Axis(<<"h">>),
             Axis(<<" ", "w", " ">>), Axis(<<"x">>)}

\* an 8 x 6 mm sensor of 5 um pixels behind a 10 mm f/2 lens at 60 mm
Base ==
    [sensor_width_mm  |-> I(8),  sensor_height_mm |-> I(6),
     sensor_diagonal_mm |-> None,
     sensor_pixel_size_width_um |-> I(5), sensor_pixel_size_height_um |-> I(5),
     lens_focal_length_mm |-> I(10), lens_fstop |-> I(2),
     lens_diagonal_mm |-> None, lens_distortion_perc |-> None,
     lens_resolution |-> None, lens_relative_illumination |-> None,
     working_distance_mm |-> I(60),
     target_fov_width |-> None, target_fov_height |-> None,
     sensor_framerate |-> None, object_allowed_blur_pixels |-> None,
     object_initial_speed_mm_s |-> None, object_motion_axis |-> NoAxis]

LensInputs ==
    {[Base EXCEPT !.lens_focal_length_mm = f, !.working_distance_mm = wd,
                  !.lens_fstop = n, !.sensor_pixel_size_width_um = pw] :
        f \in Vals(I(10)), wd \in Vals(I(15)) \cup {I(10)}, n \in Vals(I(2)),
        pw \in {None, Zero, I(5), I(-5)}}

MotionInputs ==
    {[Base EXCEPT !.sensor_framerate = fps, !.object_allowed_blur_pixels = b,
                  !.object_initial_speed_mm_s = v, !.object_motion_axis = a,
                  !.sensor_pixel_size_height_um = ph, !.working_distance_mm = wd] :
        fps \in Vals(I(500)), b \in Vals(I(5)), v \in Vals(I(100)),
        a \in AxisVals, ph \in {None, I(5), I(10)}, wd \in {I(60), I(10)}}

DiffInputs ==
    {[Base EXCEPT !.sensor_pixel_size_width_um = pw,
                  !.sensor_pixel_size_height_um = ph,
                  !.lens_fstop = n, !.lens_resolution = r,
                  !.working_distance_mm = wd] :
        pw \in Vals(I(5)), ph \in {None, Zero, I(5), I(-5)},
        n \in {I(-2), I(2)} \cup {Mul(I(8), I(j)) : j \in 1..MaxMul},
        r \in Vals(I(60)), wd \in {I(60), I(10)}}

CoverageInputs ==
    {[Base EXCEPT !.lens_diagonal_mm = ld, !.sensor_diagonal_mm = sd,
                  !.sensor_width_mm = w, !.lens_distortion_perc = dist,
                  !.working_distance_mm = wd, !.target_fov_width = tw] :
        ld \in Vals(I(10)), sd \in Vals(I(8)) \cup {I(-16)},
        w \in {None, I(8), I(-8)}, dist \in Vals(I(2)),
        wd \in {I(60), I(10)}, tw \in {None, I(50)}}

IllumInputs ==
    {[Base EXCEPT !.lens_relative_illumination = ri, !.sensor_diagonal_mm = sd,
                  !.working_distance_mm = wd, !.lens_focal_length_mm = f] :
        ri \in Degenerate \cup {Q(-1, 2), Q(1, 2), I(1), Q(6, 5), Q(3, 2), I(2),
                                I(70), I(150)}
               \cup {Mul(I(10000), I(j)) : j \in 1..MaxMul},
        sd \in {None, Zero, I(-10), I(10), I(40)},
        wd \in {Zero, I(10), I(15), I(60)}, f \in {Zero, I(-10), I(10)}}

TargetInputs ==
    {[Base EXCEPT !.target_fov_width = tw, !.target_fov_height = th,
                  !.sensor_width_mm = w, !.working_distance_mm = wd] :
        tw \in Vals(I(20)), th \in Vals(I(15)),
        w \in {None, I(8), I(-8)}, wd \in {I(60), I(10)}}

\* the empty mapping {}: every parameter absent
Empty == [fld \in DOMAIN Base |->
             IF fld = "object_motion_axis" THEN NoAxis ELSE None]

Inputs == {Base, Empty} \cup LensInputs \cup MotionInputs \cup DiffInputs
          \cup CoverageInputs \cup IllumInputs \cup TargetInputs

----------------------------------------------------------------------------
(* main: read the parameters, call calculate once, write the result.      *)
(* calculate runs its stages in source order; pc is the stage about to run *)
(* and each stage's locals are kept until the result record is built.      *)

VARIABLES params, pc, sensor, lens, fov, motion, dof, diffraction, regime,
          coverage, illumination, appearances, result, results_json

locals == <<sensor, lens, fov, motion, dof, diffraction, regime, coverage,
            illumination, appearances>>

vars == <<params, pc, locals, result, results_json>>

\* a local not yet assigned, a result not yet returned or written
NoResult == [status |-> "none"]

\* the exception that ends calculate, and with it main
ZeroDivisionError == [status |-> "ZeroDivisionError"]

\* lines 312-313: params = json.load(f)
Init ==
    /\ params \in Inputs
    /\ pc = "sensor"
    /\ sensor = NoResult /\ lens = NoResult /\ fov = NoResult
    /\ motion = NoResult /\ dof = NoResult /\ diffraction = NoResult
    /\ regime = NoResult /\ coverage = NoResult /\ illumination = NoResult
    /\ appearances = NoResult
    /\ result = NoResult
    /\ results_json = NoResult

\* lines 107-124
calculate_sensor ==
    /\ pc = "sensor"
    /\ sensor' = SensorStage(params)
    /\ pc' = "lens"
    /\ UNCHANGED <<params, lens, fov, motion, dof, diffraction, regime, coverage,
                   illumination, appearances, result, results_json>>

\* lines 126-135: the division at line 40 or 41 may raise
calculate_lens ==
    /\ pc = "lens"
    /\ lens' = LensStage(params)
    /\ IF lens'.di_mm.k = "raise" \/ lens'.m.k = "raise"
       THEN pc' = "raised" /\ result' = ZeroDivisionError
       ELSE pc' = "fov" /\ result' = result
    /\ UNCHANGED <<params, sensor, fov, motion, dof, diffraction, regime, coverage,
                   illumination, appearances, results_json>>

\* lines 137-158
calculate_fov ==
    /\ pc = "fov"
    /\ fov' = FovStage(params, sensor, lens)
    /\ pc' = "motion"
    /\ UNCHANGED <<params, sensor, lens, motion, dof, diffraction, regime, coverage,
                   illumination, appearances, result, results_json>>

\* lines 160-179
calculate_motion ==
    /\ pc = "motion"
    /\ motion' = MotionStage(params, fov)
    /\ pc' = "dof"
    /\ UNCHANGED <<params, sensor, lens, fov, dof, diffraction, regime, coverage,
                   illumination, appearances, result, results_json>>

\* lines 181-182: a division in _dof_hyperfocal may raise
calculate_dof ==
    /\ pc = "dof"
    /\ dof' = DofStage(sensor, lens)
    /\ IF Raises(dof')
       THEN pc' = "raised" /\ result' = ZeroDivisionError
       ELSE pc' = "diffraction" /\ result' = result
    /\ UNCHANGED <<params, sensor, lens, fov, motion, diffraction, regime, coverage,
                   illumination, appearances, results_json>>

\* line 184
calculate_diffraction ==
    /\ pc = "diffraction"
    /\ diffraction' = DiffStage(sensor, lens)
    /\ pc' = "regime"
    /\ UNCHANGED <<params, sensor, lens, fov, motion, dof, regime, coverage,
                   illumination, appearances, result, results_json>>

\* lines 186-194
calculate_regime ==
    /\ pc = "regime"
    /\ regime' = RegimeStage(lens, diffraction)
    /\ pc' = "coverage"
    /\ UNCHANGED <<params, sensor, lens, fov, motion, dof, diffraction,
                   coverage, illumination, appearances, result, results_json>>

\* lines 196-214
calculate_coverage ==
    /\ pc = "coverage"
    /\ coverage' = CoverageStage(sensor, lens, fov)
    /\ pc' = "illumination"
    /\ UNCHANGED <<params, sensor, lens, fov, motion, dof, diffraction, regime,
                   illumination, appearances, result, results_json>>

\* lines 216-217
calculate_illumination ==
    /\ pc = "illumination"
    /\ illumination' = IllumStage(params, sensor, lens)
    /\ pc' = "appearances"
    /\ UNCHANGED <<params, sensor, lens, fov, motion, dof, diffraction, regime,
                   coverage, appearances, result, results_json>>

\* lines 219-226
calculate_appearances ==
    /\ pc = "appearances"
    /\ appearances' = AppearStage(fov, motion)
    /\ pc' = "return"
    /\ UNCHANGED <<params, sensor, lens, fov, motion, dof, diffraction, regime,
                   coverage, illumination, result, results_json>>

\* lines 228-304 and 315: the flags, the result record, results = calculate(params)
calculate_return ==
    /\ pc = "return"
    /\ result' = Results(sensor, lens, fov, motion, dof, diffraction,
                         regime, coverage, illumination, appearances)
    /\ pc' = "dump"
    /\ UNCHANGED <<params, locals, results_json>>

\* lines 317-320: json.dump(results, f, indent=2, sort_keys=True)
WriteResults ==
    /\ pc = "dump"
    /\ results_json' = result
    /\ pc' = "done"
    /\ UNCHANGED <<params, locals, result>>

Next ==
    \/ calculate_sensor
    \/ calculate_lens
    \/ calculate_fov
    \/ calculate_motion
    \/ calculate_dof
    \/ calculate_diffraction
    \/ calculate_regime
    \/ calculate_coverage
    \/ calculate_illumination
    \/ calculate_appearances
    \/ calculate_return
    \/ WriteResults

Spec == Init /\ [][Next]_vars

----------------------------------------------------------------------------
(* Properties                                                              *)

\* calculate returned a result record
Ok == result.status = "ok"

\* the parameter was supplied with a numeric value
Given(v) == v.k = "fin"

\* the value calculate uses for a parameter whose default is 0
ValueOr0(v) == IF v.k = "fin" THEN v ELSE Zero

\* C1: calculate is total: whatever parameters are absent, malformed, zero,
\* negative or positive, the call returns a result record and never ends in
\* an error (no ZeroDivisionError in the depth-of-field stage).
C1_CalculateIsTotal == pc # "raised"

\* C2: thin-lens conjugate: when working distance <= focal length the image
\* distance and the magnification are +infinity; when working distance >
\* focal length > 0 the image distance is f*d/(d-f) and the magnification is
\* finite and strictly positive.
C2_ThinLensConjugate ==
    Ok =>
      LET f  == ValueOr0(params.lens_focal_length_mm)
          wd == ValueOr0(params.working_distance_mm)
          di == result.lens_geometry.image_distance_mm
          mp == result.lens_geometry.magnification_percent
      IN  /\ Le(wd, f) => di = PInf /\ mp = PInf
          /\ (Gt(wd, f) /\ Gt(f, Zero)) =>
                /\ IsFin(di)
                /\ Eq(Mul(di, Sub(wd, f)), Mul(f, wd))
                /\ IsFin(mp)
                /\ Gt(mp, Zero)

\* C2 witness: a record computed for a working distance beyond a positive
\* focal length, with a finite image distance
C2_Witness ==
    /\ Ok
    /\ Gt(ValueOr0(params.working_distance_mm),
          ValueOr0(params.lens_focal_length_mm))
    /\ Gt(ValueOr0(params.lens_focal_length_mm), Zero)
    /\ IsFin(result.lens_geometry.image_distance_mm)

\* C3: the recommended exposure is the minimum of the frame-period bound and
\* the 1-pixel-blur bound 1e6/object_speed_px_s (+infinity when the pixel
\* speed is not positive): it is at most each of them and equal to one of
\* them, whatever the caller's allowed blur is.
C3_RecommendedIsMinimum ==
    Ok =>
      LET M     == result.motion_exposure
          rec   == M.recommended_exposure_us
          onepx == IF Gt(M.object_speed_px_s, Zero)
                   THEN Div(Fin(1, 1, 6), M.object_speed_px_s) ELSE PInf
      IN  /\ Le(rec, M.max_exposure_us_frame)
          /\ Le(rec, onepx)
          /\ Eq(rec, M.max_exposure_us_frame) \/ Eq(rec, onepx)

\* C3 witness: a moving object, a finite frame period and a caller tolerance
\* of more than one pixel, so that the caller's bound exceeds the
\* recommendation
C3_Witness ==
    /\ Ok
    /\ Gt(result.motion_exposure.object_speed_px_s, Zero)
    /\ IsFin(result.motion_exposure.max_exposure_us_frame)
    /\ Gt(ValueOr0(params.object_allowed_blur_pixels), I(1))
    /\ Lt(result.motion_exposure.recommended_exposure_us,
          result.motion_exposure.max_exposure_us_motion_blur_for_allowed_blur_px)

\* C4: sampling_regime follows the four rules in their fixed order, with the
\* MTF50 compared against the sensor Nyquist frequency that the sensor
\* section reports.
C4_SamplingRegimeRule ==
    Ok =>
      LET D     == result.diffraction_mtf
          ratio == D.nyquist_over_diffraction_cutoff
          nyq   == result.sensor.sensor_nyquist_lp_per_mm
      IN  D.sampling_regime =
            IF Gt(ratio, Q(11, 10)) THEN "optics-limited (diffraction)"
            ELSE IF Lt(D.lens_mtf50_lp_per_mm, Mul(Q(9, 10), nyq))
                 THEN "optics-limited (aberrations)"
            ELSE IF Lt(ratio, Q(9, 10)) THEN "sensor-limited"
            ELSE "balanced"

\* C5: corner_to_center_ratio lies in [0,1]: a supplied relative
\* illumination is divided by 100 when above 1.5 and clamped to [0,1]; when
\* none is supplied and the image distance is non-finite or non-positive the
\* ratio is 1.
C5_CornerRatioInUnitInterval ==
    Ok =>
      LET r    == result.illumination.corner_to_center_ratio
          v    == params.lens_relative_illumination
          di   == result.lens_geometry.image_distance_mm
          norm == IF Gt(v, Q(3, 2)) THEN Div(v, I(100)) ELSE v
      IN  /\ IsFin(r) /\ Ge(r, Zero) /\ Le(r, I(1))
          /\ Given(v) =>
                Eq(r, IF Lt(norm, Zero) THEN Zero
                      ELSE IF Gt(norm, I(1)) THEN I(1) ELSE norm)
          /\ (~Given(v) /\ ~(IsFin(di) /\ Gt(di, Zero))) => Eq(r, I(1))

\* C5 witness: a record computed for a pathological supplied illumination,
\* negative or above 100
C5_Witness ==
    /\ Ok
    /\ Given(params.lens_relative_illumination)
    /\ \/ Lt(params.lens_relative_illumination, Zero)
       \/ Gt(params.lens_relative_illumination, I(100))

\* C6: coverage_ok is true exactly when the lens and the sensor diagonal are
\* both known and strictly positive and the lens diagonal is at least the
\* sensor diagonal; whenever coverage_ok is false potential_vignetting is
\* true.
C6_CoverageOk ==
    Ok =>
      LET ld == params.lens_diagonal_mm
          sd == SensorStage(params).sensor_diag_mm
      IN  /\ result.coverage_distortion.coverage_ok
                <=> (Given(ld) /\ Gt(ld, Zero) /\ Given(sd) /\ Gt(sd, Zero)
                     /\ Ge(ld, sd))
          /\ ~result.coverage_distortion.coverage_ok
                => result.flags.potential_vignetting

\* C7: sentinel policy: a field is NaN only when a comparison input it
\* depends on is absent (target or actual FOV for the percentages; lens or
\* sensor diagonal for margin, ratio and scale factors; nominal distortion,
\* or a diagonal, for effective distortion and edge position error); an
\* infinite field of view never makes the distortion fields NaN.  Inputs
\* that are zero or negative, and an actual FOV that is not finite and
\* positive, are counted as absent here.
C7_NaNOnlyWhenInputAbsent ==
    Ok =>
      LET F  == result.fov_sampling
          C  == result.coverage_distortion
          Missing(v) == ~(Given(v) /\ Gt(v, Zero))
          noDiag == Missing(params.lens_diagonal_mm)
                    \/ Missing(SensorStage(params).sensor_diag_mm)
      IN  /\ IsNaN(F.fov_width_actual_vs_target_percent)
                => Missing(params.target_fov_width) \/ Missing(F.fov_width_mm)
          /\ IsNaN(F.fov_height_actual_vs_target_percent)
                => Missing(params.target_fov_height) \/ Missing(F.fov_height_mm)
          /\ (IsNaN(C.coverage_margin_mm)
              \/ IsNaN(C.coverage_ratio_actual_vs_design)
              \/ IsNaN(C.fov_width_scale_vs_design)
              \/ IsNaN(C.fov_height_scale_vs_design)
              \/ IsNaN(C.fov_area_scale_vs_design)) => noDiag
          /\ (IsNaN(C.effective_distortion_percent_at_actual_edge)
              \/ IsNaN(C.edge_position_error_mm_effective))
                => noDiag \/ ~Given(params.lens_distortion_perc)

\* C8: for a positive allowed blur the caller-tolerance bound is
\* 1e6 * blur / speed when the speed in pixels/s is positive and +infinity
\* when that speed is not positive: a positive allowed blur never gives a
\* bound of 0.
C8_CallerToleranceBound ==
    Ok =>
      LET M     == result.motion_exposure
          speed == M.object_speed_px_s
          blur  == ValueOr0(params.object_allowed_blur_pixels)
          bound == M.max_exposure_us_motion_blur_for_allowed_blur_px
      IN  Gt(blur, Zero) =>
            /\ Gt(speed, Zero) => Eq(Mul(bound, speed), Mul(Fin(1, 1, 6), blur))
            /\ Le(speed, Zero) => bound = PInf
            /\ ~IsZero(bound)

\* C9: airy_disk_diameter_pixels is the Airy diameter divided by the minimum
\* pixel pitch when that pitch is positive, and +infinity when the pitch is
\* not positive or no pitch is supplied.
C9_AiryDiskPixels ==
    Ok =>
      LET D    == result.diffraction_mtf
          pmin == SensorStage(params).pixel_size_mm_min
      IN  IF IsFin(pmin) /\ Gt(pmin, Zero)
          THEN Eq(Mul(D.airy_disk_diameter_pixels, Mul(pmin, I(1000))),
                  D.airy_disk_diameter_um)
          ELSE D.airy_disk_diameter_pixels = PInf

\* C10: whenever exposure_limited_by_frame is true the recommended exposure
\* equals the frame-period bound.
C10_FrameFlagAgreesWithRecommendation ==
    Ok =>
      (result.flags.exposure_limited_by_frame
         => Eq(result.motion_exposure.recommended_exposure_us,
               result.motion_exposure.max_exposure_us_frame))

====
